---- MODULE Spec2Model ----
(***************************************************************************)
(* Spatial grid index of the Map-Service (src/grid_name.py, GridManager)   *)
(* over the "nodes" and "tiles" tables of src/models.py.                   *)
(*                                                                         *)
(* Strings that the code splits and joins (the membership columns of a     *)
(* tile, the node ids stored in them) are sequences of one-character       *)
(* strings; the tile id, which is only formatted and compared, is a        *)
(* string.  Coordinates are the floats with integral values.               *)
(***************************************************************************)
EXTENDS Integers, Sequences, FiniteSets, TLC

VARIABLES
    nodes,   \* the nodes table: a set of rows [id, x, y, level, type]
    tiles,   \* the tiles table: a set of rows (see NewTile)
    ret,     \* what the last call returned
    nops,    \* index writes so far
    nmut,    \* store writes so far
    running  \* the calls of the index that have begun and not ended

vars == <<nodes, tiles, ret, nops, nmut, running>>

(***************************************************************************)
(* Bounds of the model.                                                    *)
(***************************************************************************)
\* index writes (get_or_create_tile, assign_entity_to_cell) in one behaviour
MaxOps == 2
\* index writes before a rebuild, in the behaviours of SpecRebuild
MaxPrior == 1
\* store writes (node added, updated, deleted) in one behaviour
MaxMut == 2
\* store writes in the behaviours of SpecStale, where entities come and go
MaxChurn == 3
\* the coordinates given to get_cell_coords are -MaxCoord..MaxCoord
MaxCoord == 11
\* the cells given to get_cell_bounds are (-MaxCell..MaxCell)^2
MaxCell == 3

(***************************************************************************)
(* Program constants.                                                      *)
(***************************************************************************)
\* grid_manager = GridManager(cell_size=5.0, origin_x=0.0, origin_y=0.0)
cell_size == 5
origin_x == 0
origin_y == 0

\* rebuild_grid: the node types that are also stored in poi_id
poi_types ==
    {"restroom", "food", "bar", "merchandise", "first_aid",
     "emergency_exit", "information", "vip_box"}

\* Python None in a nullable String column: a value no string equals
None == <<"None">>

(***************************************************************************)
(* Inputs.                                                                 *)
(***************************************************************************)
\* the node ids of the store, in the order the loader's counter hands them
\* out (N1 before N11): one id is a prefix of the other, none holds a comma
NodeIdSeq == << <<"N", "1">>, <<"N", "1", "1">> >>

\* positions <<x, y, level>>, the levels those of models.LEVELS: two in cell
\* (2, 1) of level 0, the first of them again on level 1, one in cell
\* (-1, -2)
Places == {<<12, 7, 0>>, <<14, 9, 0>>, <<12, 7, 1>>, <<-3, -8, 0>>}

\* the node types the inputs draw from, of models.NODE_TYPES: one that is
\* in no category, seat, gate, one poi type
InputTypes == {"corridor", "seat", "gate", "restroom"}

\* the category tags callers pass to assign_entity_to_cell ("edge" is none
\* of the four it recognises)
Categories == {"node", "poi", "seat", "gate", "edge"}

\* the category tags of the assignments that precede a rebuild
PriorCategories == {"node", "seat", "edge"}

\* the node type of the behaviours that do not turn on the type
PlainTypes == {"seat"}

\* cells <<grid_x, grid_y, level>> asked of get_entities_in_cell
QueryCells == {<<2, 1, 0>>, <<2, 1, 1>>, <<0, 0, 0>>}

(***************************************************************************)
(* String helpers: str.split(",") and ",".join(...)                        *)
(***************************************************************************)
RECURSIVE SplitAcc(_, _, _)
SplitAcc(s, cur, acc) ==
    IF s = <<>> THEN Append(acc, cur)
    ELSE IF Head(s) = ","
         THEN SplitAcc(Tail(s), <<>>, Append(acc, cur))
         ELSE SplitAcc(Tail(s), Append(cur, Head(s)), acc)

\* s.split(",")
Split(s) == SplitAcc(s, <<>>, <<>>)

RECURSIVE Join(_)
\* ",".join(ids)
Join(ids) ==
    IF ids = <<>> THEN <<>>
    ELSE IF Len(ids) = 1 THEN Head(ids)
    ELSE Head(ids) \o <<",">> \o Join(Tail(ids))

\* [i for i in (ids_str or "").split(",") if i]
fetch_ids(ids_str) ==
    SelectSeq(Split(IF ids_str = None THEN <<>> ELSE ids_str),
              LAMBDA i : i # <<>>)

Range(s) == {s[i] : i \in 1..Len(s)}

\* _append_id without the test "if new_id not in ids"
append_id_always(current, new_id) ==
    Join(Append(fetch_ids(current), new_id))

\* _append_id with ids.insert(0, new_id) for ids.append(new_id)
append_id_front(current, new_id) ==
    LET ids == fetch_ids(current)
    IN  Join(IF new_id \in Range(ids) THEN ids ELSE <<new_id>> \o ids)

\* _append_id that starts the list again with new_id
append_id_alone(current, new_id) == Join(<<new_id>>)

\* GridManager._append_id
append_id(current, new_id) ==
    LET ids == fetch_ids(current)
    IN  Join(IF new_id \in Range(ids) THEN ids ELSE Append(ids, new_id))

(***************************************************************************)
(* Grid: coordinate transform                                              *)
(***************************************************************************)
\* GridManager.__init__: the parameters are stored as they are given
GridManager_init(cs, ox, oy) ==
    [cell_size |-> cs, origin_x |-> ox, origin_y |-> oy, error |-> FALSE]

\* grid_manager = GridManager(cell_size=5.0, origin_x=0.0, origin_y=0.0)
grid_manager == GridManager_init(cell_size, origin_x, origin_y)

\* int(a / b): the quotient cut towards zero
floor_div_trunc(a, b) ==
    LET q == (IF a < 0 THEN -a ELSE a) \div (IF b < 0 THEN -b ELSE b)
    IN  IF (a < 0) = (b < 0) THEN q ELSE -q

\* math.floor(a / b), b # 0
floor_div(a, b) == IF b > 0 THEN a \div b ELSE (-a) \div (-b)

\* get_cell_coords of the manager gm at the point (xn / den, yn / den), den
\* > 0: [cell, error]; a division by a cell_size of 0 is a ZeroDivisionError
cell_coords_of(gm, xn, yn, den) ==
    IF gm.cell_size = 0
    THEN [cell |-> <<>>, error |-> TRUE]
    ELSE [cell |-> <<floor_div(xn - gm.origin_x * den, gm.cell_size * den),
                     floor_div(yn - gm.origin_y * den, gm.cell_size * den)>>,
          error |-> FALSE]

\* get_cell_bounds with the cells counted from 1
cell_bounds_of_one_based(gm, grid_x, grid_y) ==
    LET min_x == gm.origin_x + (grid_x - 1) * gm.cell_size
        min_y == gm.origin_y + (grid_y - 1) * gm.cell_size
    IN  <<min_x, min_x + gm.cell_size, min_y, min_y + gm.cell_size>>

\* get_cell_bounds of the manager gm: <<min_x, max_x, min_y, max_y>>
cell_bounds_of(gm, grid_x, grid_y) ==
    LET min_x == gm.origin_x + grid_x * gm.cell_size
        min_y == gm.origin_y + grid_y * gm.cell_size
    IN  <<min_x, min_x + gm.cell_size, min_y, min_y + gm.cell_size>>

\* GridManager.get_cell_coords of grid_manager: math.floor((x - origin) / cell_size)
get_cell_coords(x, y) == cell_coords_of(grid_manager, x, y, 1).cell

\* GridManager.get_cell_bounds of grid_manager: <<min_x, max_x, min_y, max_y>>
get_cell_bounds(grid_x, grid_y) == cell_bounds_of(grid_manager, grid_x, grid_y)

\* the tile id without the level
tile_id_of_cell(grid_x, grid_y, level) ==
    "tile_" \o ToString(grid_x) \o "_" \o ToString(grid_y)

\* f"tile_{grid_x}_{grid_y}_{level}"
tile_id_of(grid_x, grid_y, level) ==
    "tile_" \o ToString(grid_x) \o "_" \o ToString(grid_y) \o "_" \o ToString(level)

\* Tile(...) with the bounds of x and of y taken for each other
NewTile_swapped(grid_x, grid_y, level, ids) ==
    LET b == get_cell_bounds(grid_x, grid_y)
    IN  [id |-> tile_id_of(grid_x, grid_y, level),
         grid_x |-> grid_x, grid_y |-> grid_y, level |-> level,
         min_x |-> b[3], max_x |-> b[4], min_y |-> b[1], max_y |-> b[2],
         walkable |-> TRUE,
         node_id |-> ids, poi_id |-> ids, seat_id |-> ids, gate_id |-> ids]

\* Tile(id=..., ..., walkable=True, node_id=ids, poi_id=ids, ...)
NewTile(grid_x, grid_y, level, ids) ==
    LET b == get_cell_bounds(grid_x, grid_y)
    IN  [id |-> tile_id_of(grid_x, grid_y, level),
         grid_x |-> grid_x, grid_y |-> grid_y, level |-> level,
         min_x |-> b[1], max_x |-> b[2], min_y |-> b[3], max_y |-> b[4],
         walkable |-> TRUE,
         node_id |-> ids, poi_id |-> ids, seat_id |-> ids, gate_id |-> ids]

(***************************************************************************)
(* The tiles table: a set of rows, the primary key is id                   *)
(***************************************************************************)
\* db.query(Tile).filter(Tile.id == tile_id).first(): {} is None
QueryTile(db, tile_id) ==
    IF \E t \in db : t.id = tile_id
    THEN {CHOOSE t \in db : t.id = tile_id}
    ELSE {}

\* a table that takes every row, with no primary key
InsertOk_any(db, rows) == TRUE

\* db.add(tile); db.commit(): a second row with the id is an IntegrityError
InsertOk(db, rows) ==
    /\ \A t \in rows : \A u \in db : u.id # t.id
    /\ \A t, u \in rows : t.id = u.id => t = u

\* get_or_create_tile without the lookup: the tile is always inserted
get_or_create_tile_insert(db, x, y, level) ==
    LET c == get_cell_coords(x, y)
        tile == NewTile(c[1], c[2], level, None)
    IN  IF InsertOk(db, {tile})
        THEN [db |-> db \cup {tile}, tile |-> {tile}, error |-> FALSE]
        ELSE [db |-> db, tile |-> {}, error |-> TRUE]

\* get_or_create_tile that leaves the new tile alone in the table
get_or_create_tile_alone(db, x, y, level) ==
    LET c == get_cell_coords(x, y)
        tile_id == tile_id_of(c[1], c[2], level)
        found == QueryTile(db, tile_id)
        tile == NewTile(c[1], c[2], level, None)
    IN  IF found # {}
        THEN [db |-> db, tile |-> found, error |-> FALSE]
        ELSE [db |-> {tile}, tile |-> {tile}, error |-> FALSE]

\* GridManager.get_or_create_tile: [db, tile, error]
get_or_create_tile(db, x, y, level) ==
    LET c == get_cell_coords(x, y)
        tile_id == tile_id_of(c[1], c[2], level)
        found == QueryTile(db, tile_id)
        tile == NewTile(c[1], c[2], level, None)
    IN  IF found # {}
        THEN [db |-> db, tile |-> found, error |-> FALSE]
        ELSE IF InsertOk(db, {tile})
             THEN [db |-> db \cup {tile}, tile |-> {tile}, error |-> FALSE]
             ELSE [db |-> db, tile |-> {}, error |-> TRUE]

\* assign_entity_to_cell that takes a tag it does not know for "node"
AssignField_default_node(tile, entity_type, entity_obj) ==
    IF entity_obj = None THEN tile
    ELSE IF entity_type = "poi"
    THEN [tile EXCEPT !.poi_id = append_id(tile.poi_id, entity_obj)]
    ELSE IF entity_type = "seat"
    THEN [tile EXCEPT !.seat_id = append_id(tile.seat_id, entity_obj)]
    ELSE IF entity_type = "gate"
    THEN [tile EXCEPT !.gate_id = append_id(tile.gate_id, entity_obj)]
    ELSE [tile EXCEPT !.node_id = append_id(tile.node_id, entity_obj)]

\* assign_entity_to_cell that lists every entity under node_id as well
AssignField_also_node(tile, entity_type, entity_obj) ==
    IF entity_type = "node" /\ entity_obj # None
    THEN [tile EXCEPT !.node_id = append_id(tile.node_id, entity_obj)]
    ELSE IF entity_type = "poi" /\ entity_obj # None
    THEN [tile EXCEPT !.poi_id = append_id(tile.poi_id, entity_obj),
                      !.node_id = append_id(tile.node_id, entity_obj)]
    ELSE IF entity_type = "seat" /\ entity_obj # None
    THEN [tile EXCEPT !.seat_id = append_id(tile.seat_id, entity_obj),
                      !.node_id = append_id(tile.node_id, entity_obj)]
    ELSE IF entity_type = "gate" /\ entity_obj # None
    THEN [tile EXCEPT !.gate_id = append_id(tile.gate_id, entity_obj),
                      !.node_id = append_id(tile.node_id, entity_obj)]
    ELSE tile

\* the branch of assign_entity_to_cell: entity_obj is a node id or None
AssignField(tile, entity_type, entity_obj) ==
    IF entity_type = "node" /\ entity_obj # None
    THEN [tile EXCEPT !.node_id = append_id(tile.node_id, entity_obj)]
    ELSE IF entity_type = "poi" /\ entity_obj # None
    THEN [tile EXCEPT !.poi_id = append_id(tile.poi_id, entity_obj)]
    ELSE IF entity_type = "seat" /\ entity_obj # None
    THEN [tile EXCEPT !.seat_id = append_id(tile.seat_id, entity_obj)]
    ELSE IF entity_type = "gate" /\ entity_obj # None
    THEN [tile EXCEPT !.gate_id = append_id(tile.gate_id, entity_obj)]
    ELSE tile

\* assign_entity_to_cell that takes the id out of every other tile
assign_entity_to_cell_moves(db, x, y, level, entity_type, entity_obj) ==
    LET g == get_or_create_tile(db, x, y, level)
    IN  IF g.error THEN g
        ELSE LET old == CHOOSE t \in g.tile : TRUE
                 new == AssignField(old, entity_type, entity_obj)
                 Without(t) ==
                     [t EXCEPT
                        !.node_id = Join(SelectSeq(fetch_ids(@),
                                            LAMBDA i : i # entity_obj)),
                        !.seat_id = Join(SelectSeq(fetch_ids(@),
                                            LAMBDA i : i # entity_obj))]
             IN  [db |-> {Without(t) : t \in g.db \ {old}} \cup {new},
                  tile |-> {new}, error |-> FALSE]

\* GridManager.assign_entity_to_cell: [db, tile, error]
assign_entity_to_cell(db, x, y, level, entity_type, entity_obj) ==
    LET g == get_or_create_tile(db, x, y, level)
    IN  IF g.error THEN g
        ELSE LET old == CHOOSE t \in g.tile : TRUE
                 new == AssignField(old, entity_type, entity_obj)
             IN  [db |-> (g.db \ {old}) \cup {new}, tile |-> {new},
                  error |-> FALSE]

\* EntitiesOfTile with node_lookup[nid] for every listed id: an id that is
\* not in the store is a KeyError
EntitiesOfTile_strict(tile, store) ==
    LET node_ids == fetch_ids(tile.node_id)
        poi_ids == fetch_ids(tile.poi_id)
        seat_ids == fetch_ids(tile.seat_id)
        gate_ids == fetch_ids(tile.gate_id)
        all_ids == node_ids \o poi_ids \o seat_ids \o gate_ids
        node_lookup == {n.id : n \in {m \in store : m.id \in Range(all_ids)}}
    IN  IF Range(all_ids) \subseteq node_lookup
        THEN [nodes |-> node_ids, pois |-> poi_ids,
              seats |-> seat_ids, gates |-> gate_ids,
              tile |-> {tile}, error |-> FALSE]
        ELSE [nodes |-> <<>>, pois |-> <<>>, seats |-> <<>>, gates |-> <<>>,
              tile |-> {}, error |-> TRUE]

\* the body of get_entities_in_cell once the tile is found; the entities
\* returned are named by their ids
EntitiesOfTile(tile, store) ==
    LET node_ids == fetch_ids(tile.node_id)
        poi_ids == fetch_ids(tile.poi_id)
        seat_ids == fetch_ids(tile.seat_id)
        gate_ids == fetch_ids(tile.gate_id)
        all_ids == node_ids \o poi_ids \o seat_ids \o gate_ids
        node_lookup == {n.id : n \in {m \in store : m.id \in Range(all_ids)}}
        pick(ids) == SelectSeq(ids, LAMBDA nid : nid \in node_lookup)
    IN  [nodes |-> pick(node_ids), pois |-> pick(poi_ids),
         seats |-> pick(seat_ids), gates |-> pick(gate_ids),
         tile |-> {tile}, error |-> FALSE]

\* get_entities_in_cell with the tile looked up by its cell alone
get_entities_in_cell_any_level(db, store, grid_x, grid_y, level) ==
    LET found == {t \in db : t.grid_x = grid_x /\ t.grid_y = grid_y}
    IN  IF found = {}
        THEN [nodes |-> <<>>, pois |-> <<>>, seats |-> <<>>, gates |-> <<>>,
              tile |-> {}, error |-> FALSE]
        ELSE EntitiesOfTile(CHOOSE t \in found : TRUE, store)

\* GridManager.get_entities_in_cell
get_entities_in_cell(db, store, grid_x, grid_y, level) ==
    LET found == QueryTile(db, tile_id_of(grid_x, grid_y, level))
    IN  IF found = {}
        THEN [nodes |-> <<>>, pois |-> <<>>, seats |-> <<>>, gates |-> <<>>,
              tile |-> {}, error |-> FALSE]
        ELSE EntitiesOfTile(CHOOSE t \in found : TRUE, store)

\* Categorise with node_id as the last branch of the chain, not a step of
\* its own
Categorise_exclusive(tile, node) ==
    IF node.type = "gate"
    THEN [tile EXCEPT !.gate_id = append_id(tile.gate_id, node.id)]
    ELSE IF node.type = "seat"
    THEN [tile EXCEPT !.seat_id = append_id(tile.seat_id, node.id)]
    ELSE IF node.type \in poi_types
    THEN [tile EXCEPT !.poi_id = append_id(tile.poi_id, node.id)]
    ELSE [tile EXCEPT !.node_id = append_id(tile.node_id, node.id)]

\* Categorise with a plain else where the code tests poi_types
Categorise_else_poi(tile, node) ==
    LET t1 == [tile EXCEPT !.node_id = append_id(tile.node_id, node.id)]
    IN  IF node.type = "gate"
        THEN [t1 EXCEPT !.gate_id = append_id(t1.gate_id, node.id)]
        ELSE IF node.type = "seat"
        THEN [t1 EXCEPT !.seat_id = append_id(t1.seat_id, node.id)]
        ELSE [t1 EXCEPT !.poi_id = append_id(t1.poi_id, node.id)]

\* rebuild_grid, the categorisation of one node into its tile
Categorise(tile, node) ==
    LET t1 == [tile EXCEPT !.node_id = append_id(tile.node_id, node.id)]
    IN  IF node.type = "gate"
        THEN [t1 EXCEPT !.gate_id = append_id(t1.gate_id, node.id)]
        ELSE IF node.type = "seat"
        THEN [t1 EXCEPT !.seat_id = append_id(t1.seat_id, node.id)]
        ELSE IF node.type \in poi_types
        THEN [t1 EXCEPT !.poi_id = append_id(t1.poi_id, node.id)]
        ELSE t1

\* CacheNode without the test "if tile_id not in tiles_cache": a fresh tile
\* for every node
CacheNode_fresh(tiles_cache, node) ==
    LET c == get_cell_coords(node.x, node.y)
        tile_id == tile_id_of(c[1], c[2], node.level)
        fresh == NewTile(c[1], c[2], node.level, <<>>)
        cache == IF tile_id \in DOMAIN tiles_cache
                 THEN [tiles_cache EXCEPT ![tile_id] = fresh]
                 ELSE tiles_cache @@ (tile_id :> fresh)
    IN  [cache EXCEPT ![tile_id] = Categorise(cache[tile_id], node)]

\* rebuild_grid, one turn of the loop: tiles_cache is a function tile id -> tile
CacheNode(tiles_cache, node) ==
    LET c == get_cell_coords(node.x, node.y)
        tile_id == tile_id_of(c[1], c[2], node.level)
        cache == IF tile_id \in DOMAIN tiles_cache
                 THEN tiles_cache
                 ELSE tiles_cache @@
                      (tile_id :> NewTile(c[1], c[2], node.level, <<>>))
    IN  [cache EXCEPT ![tile_id] = Categorise(cache[tile_id], node)]

RECURSIVE BuildCache(_, _)
\* rebuild_grid, the loop over db.query(Node).all()
BuildCache(scan, tiles_cache) ==
    IF scan = <<>> THEN tiles_cache
    ELSE BuildCache(Tail(scan), CacheNode(tiles_cache, Head(scan)))

\* DeleteTiles that deletes nothing
DeleteTiles_none(db) == db

\* db.query(Tile).delete(); db.commit()
DeleteTiles(db) == {}

\* rebuild_grid that returns len(nodes)
rebuild_grid_len_nodes(db, scan) ==
    LET emptied == DeleteTiles(db)
        tiles_cache == BuildCache(scan, <<>>)
        built == {tiles_cache[k] : k \in DOMAIN tiles_cache}
    IN  IF InsertOk(emptied, built)
        THEN [db |-> emptied \cup built, count |-> Len(scan), error |-> FALSE]
        ELSE [db |-> emptied, count |-> -1, error |-> TRUE]

\* GridManager.rebuild_grid over the nodes in the order the query returns
\* them: [db, count, error]
rebuild_grid(db, scan) ==
    LET emptied == DeleteTiles(db)
        tiles_cache == BuildCache(scan, <<>>)
        built == {tiles_cache[k] : k \in DOMAIN tiles_cache}
    IN  IF InsertOk(emptied, built)
        THEN [db |-> emptied \cup built,
              count |-> Cardinality(DOMAIN tiles_cache), error |-> FALSE]
        ELSE [db |-> emptied, count |-> -1, error |-> TRUE]

(***************************************************************************)
(* Calls that the store fails, or that stop before they end                *)
(***************************************************************************)
\* the statements of rebuild_grid at which it can stop: the delete of the
\* tiles, its commit, the query of the nodes, the loop, the bulk write
RebuildSteps == {"delete", "commit", "query", "loop", "bulk"}

\* the statements of assign_entity_to_cell at which it can stop: the query
\* and the commit and refresh of get_or_create_tile, and its own commit
AssignSteps == {"query", "create", "refresh", "commit"}

\* the final write with a commit after every db.add(tile): any part of the
\* tiles is in the table when it stops
BulkStopped_each(emptied, built) ==
    {emptied \cup part : part \in (SUBSET built) \ {built}}

\* the tables the final write leaves when it does not complete: the tiles
\* are added to the session and committed by one db.commit(), all or none
BulkStopped(emptied, built) == {emptied}

\* rebuild_grid stopping at the statement at: the tables it can leave
rebuild_grid_stopped(db, scan, at) ==
    LET emptied == DeleteTiles(db)
        tiles_cache == BuildCache(scan, <<>>)
        built == {tiles_cache[k] : k \in DOMAIN tiles_cache}
    IN  IF at \in {"delete", "commit"} THEN {db}
        ELSE IF at \in {"query", "loop"} THEN {emptied}
        ELSE BulkStopped(emptied, built)

\* assign_entity_to_cell stopping at the statement at: the table it leaves
\* (a tile that get_or_create_tile committed stays)
assign_entity_to_cell_stopped(db, x, y, level, at) ==
    IF at \in {"query", "create"} THEN db
    ELSE get_or_create_tile(db, x, y, level).db

(***************************************************************************)
(* The entity store and the calls, one at a time                           *)
(***************************************************************************)
\* floor(a / b) for b > 0, by its defining inequality
Floor(a, b) ==
    CHOOSE g \in (a \div b - 1)..(a \div b + 1) : g * b <= a /\ a < (g + 1) * b

\* the cell a position lies in
CellOf(x, y) == <<Floor(x - origin_x, cell_size), Floor(y - origin_y, cell_size)>>

\* the ids a membership column lists
Listed(field) == Range(fetch_ids(field))

\* the store entities that lie in the cell and on the level of tile t
Residents(t, store) ==
    {n \in store : CellOf(n.x, n.y) = <<t.grid_x, t.grid_y>> /\ n.level = t.level}

\* the index db agrees with the store
Consistent(db, store) ==
    /\ \A t \in db : Listed(t.node_id) = {n.id : n \in Residents(t, store)}
    /\ \A n \in store :
          Cardinality({t \in db : n.id \in Listed(t.node_id)}) = 1
    /\ \A t \in db : \A i \in Listed(t.node_id) : \E n \in store : n.id = i

\* every id tile t lists, in any of its four columns
ListedAny(t) ==
    Listed(t.node_id) \cup Listed(t.poi_id) \cup Listed(t.seat_id)
        \cup Listed(t.gate_id)

\* the index db lists an id whose entity was deleted or has left the tile
Stale(db, store) ==
    \E t \in db : \E i \in ListedAny(t) :
        \A n \in Residents(t, store) : n.id # i

\* what a call returned; the fields a call does not set keep these values.
\* at names the statement at which a call that failed stopped, and before
\* is the tiles table as it was when that call began.
\* prev and drift are history: prev is "same" when the call before was this
\* call with these arguments, "cell" when it was this call at another
\* position of the same cell and level, "unrecognised" when the call is a
\* lookup of the cell of an assignment, made just before, whose category tag
\* is not recognised or that has no entity, "emptied" when the call is a
\* lookup of a cell that now has no tile and the call before was the same
\* lookup and returned a tile with nodes; drift says that the index a
\* rebuild discarded was stale
Returned(op) ==
    [op |-> op, args |-> <<>>, category |-> "", entity |-> None,
     tile |-> {}, count |-> 0,
     nodes |-> <<>>, pois |-> <<>>, seats |-> <<>>, gates |-> <<>>,
     config |-> <<>>, cell |-> <<>>, bounds |-> <<>>,
     error |-> FALSE, at |-> "", before |-> {},
     prev |-> "", drift |-> FALSE]

\* the call has a category tag that is not recognised, or no entity
Unrecognised(r) ==
    r.category \notin {"node", "poi", "seat", "gate"} \/ r.entity = None

\* the cell and level of the position args
CellArgs(args) ==
    LET c == get_cell_coords(args[1], args[2]) IN <<c[1], c[2], args[3]>>

\* the history field prev of a call op(args) with category and entity
PrevOf(op, args, category, entity) ==
    IF /\ op = "get_entities_in_cell"
       /\ ret.op = "assign_entity_to_cell"
       /\ Unrecognised(ret)
       /\ args = CellArgs(ret.args)
    THEN "unrecognised"
    ELSE IF /\ op = "get_entities_in_cell"
            /\ ret.op = op /\ ret.args = args
            /\ ret.tile # {} /\ ret.nodes # <<>>
            /\ \A t \in tiles : <<t.grid_x, t.grid_y, t.level>> # args
    THEN "emptied"
    ELSE IF ret.op # op \/ ret.category # category \/ ret.entity # entity THEN ""
    ELSE IF ret.args = args THEN "same"
    ELSE IF /\ op \in {"get_or_create_tile", "assign_entity_to_cell"}
            /\ CellOf(ret.args[1], ret.args[2]) = CellOf(args[1], args[2])
            /\ ret.args[3] = args[3]
         THEN "cell"
         ELSE ""

\* the orders in which db.query(Node).all() can return the rows
ScanOrders(store) ==
    {s \in [1..Cardinality(store) -> store] :
        \A i, j \in 1..Cardinality(store) : s[i] = s[j] => i = j}

\* the id the loader gives the next node
NextId(store) ==
    LET free == {i \in 1..Len(NodeIdSeq) :
                    \A n \in store : n.id # NodeIdSeq[i]}
    IN  NodeIdSeq[CHOOSE i \in free : \A j \in free : i <= j]

\* the requests that run side by side, each with a database session of its
\* own
Sessions == {1, 2}

\* a request that has not called the index. op is the call it makes, pc the
\* statement it has reached, tile the tile its session holds, as loaded.
\* overlap and lost are history: the call ran beside a call of the other
\* request; the row was there when the call inserted its tile
IdleSession ==
    [pc |-> "idle", op |-> "", tile |-> {}, args |-> <<>>, category |-> "",
     entity |-> None, error |-> FALSE, overlap |-> FALSE, lost |-> FALSE]

\* no call of the index has begun. Of a rebuild_grid: the statement it has
\* reached and the tiles it holds in memory; of an assign_entity_to_cell:
\* the statement it has reached, the tile its session loaded and its
\* arguments. finished, alone and raced are history: a rebuild has ended;
\* the assignment began after a rebuild had ended and no rebuild moved
\* since; a rebuild moved between the two statements of the assignment
NoCalls ==
    [rebuild |-> [pc |-> "idle", built |-> {}, finished |-> FALSE],
     assign |-> [pc |-> "idle", tile |-> {}, args |-> <<>>, category |-> "",
                 entity |-> None, error |-> FALSE,
                 alone |-> FALSE, raced |-> FALSE],
     sessions |-> [s \in Sessions |-> IdleSession]]

Init ==
    /\ nodes = {}
    /\ tiles = {}
    /\ ret = Returned("init")
    /\ nops = 0
    /\ nmut = 0
    /\ running = NoCalls

\* db.add(Node(**node_data)); db.commit()
AddNode(x, y, level, type) ==
    /\ nodes' = nodes \cup {[id |-> NextId(nodes), x |-> x, y |-> y,
                              level |-> level, type |-> type]}
    /\ ret' = Returned("add_node")
    /\ nmut' = nmut + 1
    /\ UNCHANGED <<tiles, nops, running>>

\* the fields update_node writes: a field of data that is {} is None
Updated(node, data) ==
    [id |-> node.id,
     x |-> IF data.x # {} THEN CHOOSE v \in data.x : TRUE ELSE node.x,
     y |-> IF data.y # {} THEN CHOOSE v \in data.y : TRUE ELSE node.y,
     level |-> IF data.level # {} THEN CHOOSE v \in data.level : TRUE
               ELSE node.level,
     type |-> IF data.type # {} THEN CHOOSE v \in data.type : TRUE
              ELSE node.type]

\* the NodeUpdate bodies sent: a new place or none, a new type or none
NodeUpdates ==
    {[x |-> p[1], y |-> p[2], level |-> p[3], type |-> t] :
        p \in {<<{}, {}, {}>>} \cup {<<{q[1]}, {q[2]}, {q[3]}>> : q \in Places},
        t \in {{}} \cup {{v} : v \in InputTypes}}

\* the NodeUpdate bodies that move a node and leave its type
NodeMoves == {u \in NodeUpdates : u.type = {} /\ u.x # {}}

\* PUT /nodes/{node_id}
UpdateNode(node, data) ==
    /\ node \in nodes
    /\ nodes' = (nodes \ {node}) \cup {Updated(node, data)}
    /\ ret' = [Returned("update_node") EXCEPT !.entity = node.id]
    /\ nmut' = nmut + 1
    /\ UNCHANGED <<tiles, nops, running>>

\* a deletion that also takes the id out of every list of the index
DeleteNode_unlist(node) ==
    /\ node \in nodes
    /\ nodes' = nodes \ {node}
    /\ tiles' = {[t EXCEPT
                    !.node_id = Join(SelectSeq(fetch_ids(@),
                                               LAMBDA i : i # node.id)),
                    !.seat_id = Join(SelectSeq(fetch_ids(@),
                                               LAMBDA i : i # node.id))] :
                 t \in tiles}
    /\ ret' = Returned("delete_node")
    /\ nmut' = nmut + 1
    /\ UNCHANGED <<nops, running>>

\* an entity is deleted from the store
DeleteNode(node) ==
    /\ node \in nodes
    /\ nodes' = nodes \ {node}
    /\ ret' = Returned("delete_node")
    /\ nmut' = nmut + 1
    /\ UNCHANGED <<tiles, nops, running>>

GetOrCreateTile(x, y, level) ==
    /\ LET r == get_or_create_tile(tiles, x, y, level)
       IN  /\ tiles' = r.db
           /\ ret' = [Returned("get_or_create_tile") EXCEPT
                         !.args = <<x, y, level>>,
                         !.tile = r.tile, !.error = r.error,
                         !.prev = PrevOf("get_or_create_tile",
                                         <<x, y, level>>, "", None)]
    /\ nops' = nops + 1
    /\ UNCHANGED <<nodes, nmut, running>>

AssignEntityToCell(x, y, level, entity_type, entity_obj) ==
    /\ LET r == assign_entity_to_cell(tiles, x, y, level, entity_type,
                                      entity_obj)
       IN  /\ tiles' = r.db
           /\ ret' = [Returned("assign_entity_to_cell") EXCEPT
                         !.args = <<x, y, level>>,
                         !.category = entity_type, !.entity = entity_obj,
                         !.tile = r.tile, !.error = r.error,
                         !.prev = PrevOf("assign_entity_to_cell",
                                         <<x, y, level>>, entity_type,
                                         entity_obj)]
    /\ nops' = nops + 1
    /\ UNCHANGED <<nodes, nmut, running>>

\* a lookup that inserts the tile of a cell it finds absent
GetEntitiesInCell_creates(grid_x, grid_y, level) ==
    /\ LET r == get_entities_in_cell(tiles, nodes, grid_x, grid_y, level)
       IN  /\ ret' = [Returned("get_entities_in_cell") EXCEPT
                         !.args = <<grid_x, grid_y, level>>,
                         !.nodes = r.nodes, !.pois = r.pois,
                         !.seats = r.seats, !.gates = r.gates,
                         !.tile = r.tile, !.error = r.error,
                         !.prev = PrevOf("get_entities_in_cell",
                                         <<grid_x, grid_y, level>>, "", None)]
           /\ tiles' = IF r.tile # {} THEN tiles
                       ELSE tiles \cup {NewTile(grid_x, grid_y, level, None)}
    /\ UNCHANGED <<nodes, nops, nmut, running>>

GetEntitiesInCell(grid_x, grid_y, level) ==
    /\ LET r == get_entities_in_cell(tiles, nodes, grid_x, grid_y, level)
       IN  ret' = [Returned("get_entities_in_cell") EXCEPT
                     !.args = <<grid_x, grid_y, level>>,
                     !.nodes = r.nodes, !.pois = r.pois, !.seats = r.seats,
                     !.gates = r.gates, !.tile = r.tile, !.error = r.error,
                     !.prev = PrevOf("get_entities_in_cell",
                                     <<grid_x, grid_y, level>>, "", None)]
    /\ UNCHANGED <<nodes, tiles, nops, nmut, running>>

RebuildGrid(scan) ==
    /\ LET r == rebuild_grid(tiles, scan)
       IN  /\ tiles' = r.db
           /\ ret' = [Returned("rebuild_grid") EXCEPT
                         !.count = r.count, !.error = r.error,
                         !.prev = PrevOf("rebuild_grid", <<>>, "", None),
                         !.drift = Stale(tiles, nodes)]
    /\ UNCHANGED <<nodes, nops, nmut, running>>

\* the store may take one more write
StoreOpen == nmut < MaxMut

\* the store may take one more node
StoreRoom == StoreOpen /\ Cardinality(nodes) < Len(NodeIdSeq)

\* the incremental path: nodes are loaded, indexed one by one, looked up,
\* and the index is rebuilt
Next ==
    \/ /\ StoreRoom
       /\ \E p \in Places, t \in PlainTypes : AddNode(p[1], p[2], p[3], t)
    \/ /\ nops < MaxOps
       /\ \E p \in Places : GetOrCreateTile(p[1], p[2], p[3])
    \/ /\ nops < MaxOps
       /\ \E n \in nodes, c \in Categories :
             AssignEntityToCell(n.x, n.y, n.level, c, n.id)
    \/ /\ nops < MaxOps
       /\ \E p \in Places : AssignEntityToCell(p[1], p[2], p[3], "node", None)
    \/ \E c \in QueryCells : GetEntitiesInCell(c[1], c[2], c[3])
    \/ \E scan \in ScanOrders(nodes) : RebuildGrid(scan)

Spec == Init /\ [][Next]_vars

\* the rebuild path: the store is loaded and changed, the index drifts
\* (an assignment with a category that is not recognised leaves an empty
\* tile), and the index is rebuilt
NextRebuild ==
    \/ /\ StoreRoom
       /\ \E p \in Places, t \in InputTypes : AddNode(p[1], p[2], p[3], t)
    \/ /\ StoreOpen
       /\ \E n \in nodes, d \in NodeMoves : UpdateNode(n, d)
    \/ /\ StoreOpen
       /\ \E n \in nodes : DeleteNode(n)
    \/ /\ nops < MaxPrior
       /\ \E n \in nodes, c \in PriorCategories :
             AssignEntityToCell(n.x, n.y, n.level, c, n.id)
    \/ \E scan \in ScanOrders(nodes) : RebuildGrid(scan)

SpecRebuild == Init /\ [][NextRebuild]_vars

(***************************************************************************)
(* The rebuild: what the index holds once rebuild_grid has returned        *)
(***************************************************************************)
\* rebuild_grid was the last call and returned
AfterRebuild == ret.op = "rebuild_grid" /\ ~ret.error

\* C1: after rebuild_grid, from any store and any index before it, the
\* node_id list of every tile holds every id of the tile's poi_id, seat_id
\* and gate_id lists
C1_NodeIdSuperset ==
    AfterRebuild =>
        \A t \in tiles :
            (Listed(t.poi_id) \cup Listed(t.seat_id) \cup Listed(t.gate_id))
                \subseteq Listed(t.node_id)

\* a rebuild over an index that was written before, giving a tile that
\* lists a gate and a seat
C1_Witness ==
    /\ AfterRebuild
    /\ nops > 0
    /\ \E t \in tiles : Listed(t.gate_id) # {} /\ Listed(t.seat_id) # {}

\* C2: after rebuild_grid, whatever the index held before, the ids of every
\* tile's node_id are exactly the ids of the store entities of that cell
\* and level, every store entity is listed in exactly one tile, and no
\* listed id is absent from the store
C2_RebuildConsistent == AfterRebuild => Consistent(tiles, nodes)

\* a rebuild of a stale index over a store that is not empty
C2_Witness == AfterRebuild /\ ret.drift /\ nodes # {}

\* C3: rebuild_grid discards every tile there was and returns the number of
\* tiles it made: the number of distinct (gx, gy, level) that store
\* entities occupy, and the number of tiles persisted after the call
C3_RebuildCount ==
    AfterRebuild =>
        /\ ret.count = Cardinality({<<CellOf(n.x, n.y), n.level>> : n \in nodes})
        /\ ret.count = Cardinality(tiles)
        /\ \A t \in tiles : Residents(t, nodes) # {}

\* a rebuild over an empty store and an index that held a tile: no tile
\* is left and 0 is returned
C3_Witness ==
    AfterRebuild /\ nodes = {} /\ nops > 0 /\ ret.count = 0 /\ tiles = {}

\* the tiles that list id i in the column col
TilesListing(i, col) == {t \in tiles : i \in Listed(t[col])}

\* C4: after rebuild_grid every store entity is in the node_id of its tile
\* and of no other, in gate_id when its type is gate, in seat_id when it is
\* seat, in poi_id when it is one of the eight poi types, and in no other
\* category list; so each list is as long as the tile has such entities
C4_RebuildCategories ==
    AfterRebuild =>
        /\ \A n \in nodes :
              LET home == {t \in tiles : n \in Residents(t, nodes)}
                  pois == {"restroom", "food", "bar", "merchandise", "first_aid",
                           "emergency_exit", "information", "vip_box"}
              IN  /\ Cardinality(home) = 1
                  /\ TilesListing(n.id, "node_id") = home
                  /\ TilesListing(n.id, "gate_id") =
                        IF n.type = "gate" THEN home ELSE {}
                  /\ TilesListing(n.id, "seat_id") =
                        IF n.type = "seat" THEN home ELSE {}
                  /\ TilesListing(n.id, "poi_id") =
                        IF n.type \in pois THEN home ELSE {}
        /\ \A t \in tiles :
              /\ Len(fetch_ids(t.node_id)) = Cardinality(Residents(t, nodes))
              /\ Len(fetch_ids(t.seat_id)) =
                    Cardinality({n \in Residents(t, nodes) : n.type = "seat"})
              /\ Len(fetch_ids(t.gate_id)) =
                    Cardinality({n \in Residents(t, nodes) : n.type = "gate"})

\* a rebuilt tile of a seat and a corridor node: two ids in node_id, one in
\* seat_id, none in poi_id and gate_id
C4_Witness ==
    /\ AfterRebuild
    /\ \E t \in tiles :
          /\ Len(fetch_ids(t.node_id)) = 2
          /\ Len(fetch_ids(t.seat_id)) = 1
          /\ fetch_ids(t.poi_id) = <<>>
          /\ fetch_ids(t.gate_id) = <<>>

\* C5: rebuild_grid called again at once, the store unchanged, returns the
\* same count and leaves the same tile ids and, for every tile, the same
\* ids in each of the four lists
C5_RebuildTwice ==
    [][(AfterRebuild /\ AfterRebuild' /\ ret'.prev = "same") =>
          /\ ret'.count = ret.count
          /\ {t.id : t \in tiles'} = {t.id : t \in tiles}
          /\ \A t \in tiles : \A u \in tiles' :
                t.id = u.id =>
                    /\ Listed(u.node_id) = Listed(t.node_id)
                    /\ Listed(u.poi_id) = Listed(t.poi_id)
                    /\ Listed(u.seat_id) = Listed(t.seat_id)
                    /\ Listed(u.gate_id) = Listed(t.gate_id)]_vars

\* a second rebuild in a row that left a tile of two entities
C5_Witness ==
    /\ AfterRebuild
    /\ ret.prev = "same"
    /\ \E t \in tiles : Len(fetch_ids(t.node_id)) = 2

(***************************************************************************)
(* The incremental path                                                    *)
(***************************************************************************)
\* the column of a tile that holds the list of a category
ColumnOf(category) ==
    CASE category = "node" -> "node_id"
      [] category = "poi" -> "poi_id"
      [] category = "seat" -> "seat_id"
      [] category = "gate" -> "gate_id"

Columns == {"node_id", "poi_id", "seat_id", "gate_id"}

\* the sequence holds no element twice
NoDup(seq) == \A i, j \in 1..Len(seq) : seq[i] = seq[j] => i = j

\* C6: assign_entity_to_cell called a second time with the same x, y, level,
\* category and entity leaves the list of that category in the tile as
\* the first call left it: same length, same order, the id once
C6_AssignTwice ==
    [][(/\ ret.op = "assign_entity_to_cell"
        /\ ret'.op = "assign_entity_to_cell"
        /\ ret'.args = ret.args
        /\ ret'.category = ret.category
        /\ ret'.entity = ret.entity
        /\ ret.category \in {"node", "poi", "seat", "gate"}
        /\ ret.entity # None)
       => /\ ~ret'.error
          /\ \A t \in ret.tile : \A u \in ret'.tile :
                /\ u.id = t.id
                /\ u[ColumnOf(ret.category)] = t[ColumnOf(ret.category)]
                /\ NoDup(fetch_ids(u[ColumnOf(ret.category)]))
                /\ ret.entity \in Listed(u[ColumnOf(ret.category)])
          /\ ret'.tile # {}]_vars

\* a seat assigned a second time with the same arguments
C6_Witness ==
    /\ ret.op = "assign_entity_to_cell"
    /\ ret.prev = "same"
    /\ ret.category = "seat"
    /\ ret.entity # None
    /\ \E u \in ret.tile : ret.entity \in Listed(u.seat_id)

\* seq is the beginning of long
IsPrefix(seq, long) ==
    Len(seq) <= Len(long) /\ \A i \in 1..Len(seq) : seq[i] = long[i]

\* the ids of seq are ids of the scan, in the order of the scan
InScanOrder(seq, scan) ==
    /\ \A i \in 1..Len(seq) : \E k \in 1..Len(scan) : scan[k].id = seq[i]
    /\ \A i, j \in 1..Len(seq) : \A k, l \in 1..Len(scan) :
          (i < j /\ scan[k].id = seq[i] /\ scan[l].id = seq[j]) => k < l

\* C7: through any serial sequence of get_or_create_tile,
\* assign_entity_to_cell and rebuild_grid no list of any tile holds an id
\* twice, and the ids stand in the order in which they were first put in:
\* a call other than a rebuild only adds at the end of a list, and a rebuild
\* leaves every list in the order of its scan
C7_ListsOrdered ==
    /\ [](\A t \in tiles : \A col \in Columns : NoDup(fetch_ids(t[col])))
    /\ [][/\ ret'.op # "rebuild_grid" =>
              \A t \in tiles : \E u \in tiles' :
                  /\ u.id = t.id
                  /\ \A col \in Columns :
                        IsPrefix(fetch_ids(t[col]), fetch_ids(u[col]))
          /\ ret'.op = "rebuild_grid" =>
              \E scan \in ScanOrders(nodes') :
                  \A u \in tiles' : \A col \in Columns :
                      InScanOrder(fetch_ids(u[col]), scan)]_vars

\* N11 and then N1 assigned to the seat list of one tile
C7_Witness ==
    /\ ret.op = "assign_entity_to_cell"
    /\ \E t \in tiles : fetch_ids(t.seat_id) = <<NodeIdSeq[2], NodeIdSeq[1]>>

\* C8: get_or_create_tile is get-or-create: the tile it returns is the
\* persisted tile of the cell and level of the position, two calls in a row
\* for positions of one cell and level return the same tile id and add no
\* second tile, and no state holds two tiles for one (gx, gy, level)
C8_GetOrCreateOnce ==
    /\ [](/\ \A t, u \in tiles :
              ((t.grid_x = u.grid_x /\ t.grid_y = u.grid_y /\ t.level = u.level)
                  => t = u)
          /\ ret.op = "get_or_create_tile" =>
              /\ ~ret.error
              /\ Cardinality(ret.tile) = 1
              /\ ret.tile \subseteq tiles
              /\ \A t \in ret.tile :
                    /\ <<t.grid_x, t.grid_y>> = CellOf(ret.args[1], ret.args[2])
                    /\ t.level = ret.args[3])
    /\ [][(/\ ret.op = "get_or_create_tile"
           /\ ret'.op = "get_or_create_tile"
           /\ CellOf(ret.args[1], ret.args[2]) = CellOf(ret'.args[1], ret'.args[2])
           /\ ret.args[3] = ret'.args[3])
           => /\ {t.id : t \in ret'.tile} = {t.id : t \in ret.tile}
              /\ tiles' = tiles]_vars

\* a second call for another position of the cell of the first: one tile
C8_Witness ==
    /\ ret.op = "get_or_create_tile"
    /\ ret.prev = "cell"
    /\ Cardinality(tiles) = 1

\* C9: two entities at the same (x, y) on different levels are never put in
\* one tile, by assign_entity_to_cell or by rebuild_grid: a tile lists
\* entities of its own level only, and get_entities_in_cell returns
\* entities of the level asked for only, so that what it returns for
\* level 0 and for level 1 is disjoint
C9_LevelIsolation ==
    /\ \A t \in tiles : \A n \in nodes :
          (n.id \in ListedAny(t) => n.level = t.level)
    /\ \A n, m \in nodes :
          ((n.x = m.x /\ n.y = m.y /\ n.level # m.level) =>
              ~\E t \in tiles : {n.id, m.id} \subseteq ListedAny(t))
    /\ ret.op = "get_entities_in_cell" =>
          \A n \in nodes :
              (n.id \in (Range(ret.nodes) \cup Range(ret.pois)
                          \cup Range(ret.seats) \cup Range(ret.gates))
                  => n.level = ret.args[3])

\* two entities at one (x, y) on two levels, both indexed, one of them
\* returned by get_entities_in_cell
C9_Witness ==
    /\ ret.op = "get_entities_in_cell"
    /\ ret.seats # <<>>
    /\ \E n, m \in nodes :
          /\ n.x = m.x /\ n.y = m.y /\ n.level # m.level
          /\ \E t, u \in tiles : n.id \in ListedAny(t) /\ m.id \in ListedAny(u)

\* the tiles of the cell (grid_x, grid_y) on the level
TilesOfCell(grid_x, grid_y, level) ==
    {t \in tiles : t.grid_x = grid_x /\ t.grid_y = grid_y /\ t.level = level}

\* get_entities_in_cell returned four empty lists
ReturnedNothing ==
    ret.nodes = <<>> /\ ret.pois = <<>> /\ ret.seats = <<>> /\ ret.gates = <<>>

\* C10 as claimed: get_entities_in_cell on a cell that has no entity
\* assigned returns four empty lists and no tile, and raises nothing
C10_EmptyCellNoTile ==
    (/\ ret.op = "get_entities_in_cell"
     /\ \A t \in TilesOfCell(ret.args[1], ret.args[2], ret.args[3]) :
           ListedAny(t) = {})
    => ReturnedNothing /\ ret.tile = {} /\ ~ret.error

\* C10 as amended: get_entities_in_cell on a cell that has no entity
\* assigned raises nothing and returns four empty lists, with no tile when
\* the cell has no tile and with the tile of the cell when it has one
C10_EmptyCell ==
    (/\ ret.op = "get_entities_in_cell"
     /\ \A t \in TilesOfCell(ret.args[1], ret.args[2], ret.args[3]) :
           ListedAny(t) = {})
    => /\ ReturnedNothing
       /\ ~ret.error
       /\ ret.tile = TilesOfCell(ret.args[1], ret.args[2], ret.args[3])
       /\ Cardinality(ret.tile) <= 1

\* get_entities_in_cell on a cell whose tile exists and lists nothing
C10_Witness ==
    /\ ret.op = "get_entities_in_cell"
    /\ ReturnedNothing
    /\ ret.tile # {}
    /\ \A t \in ret.tile : ListedAny(t) = {}

(***************************************************************************)
(* Stale references: entities leave the store, the index keeps their ids   *)
(***************************************************************************)
\* the category tags of the assignments of SpecStale
StaleCategories == {"node", "seat"}

\* entities are added and deleted, indexed one by one and looked up
NextStale ==
    \/ /\ nmut < MaxChurn
       /\ Cardinality(nodes) < Len(NodeIdSeq)
       /\ \E p \in Places, t \in PlainTypes : AddNode(p[1], p[2], p[3], t)
    \/ /\ nmut < MaxChurn
       /\ \E n \in nodes : DeleteNode(n)
    \/ /\ nops < MaxOps
       /\ \E n \in nodes, c \in StaleCategories :
             AssignEntityToCell(n.x, n.y, n.level, c, n.id)
    \/ \E c \in QueryCells : GetEntitiesInCell(c[1], c[2], c[3])

SpecStale == Init /\ [][NextStale]_vars

\* the ids of a membership column that are ids of store entities, in the
\* order of the column
Resolved(field) ==
    SelectSeq(fetch_ids(field), LAMBDA i : \E n \in nodes : n.id = i)

\* C11: for a tile that exists get_entities_in_cell returns, in each of the
\* four buckets, the entities whose ids are in the list of the bucket and
\* in the store, in the order of the list; an id that is no longer in the
\* store is left out of its bucket and raises nothing
C11_StaleDropped ==
    (/\ ret.op = "get_entities_in_cell"
     /\ TilesOfCell(ret.args[1], ret.args[2], ret.args[3]) # {}) =>
        /\ ~ret.error
        /\ ret.tile = TilesOfCell(ret.args[1], ret.args[2], ret.args[3])
        /\ \A t \in ret.tile :
              /\ ret.nodes = Resolved(t.node_id)
              /\ ret.pois = Resolved(t.poi_id)
              /\ ret.seats = Resolved(t.seat_id)
              /\ ret.gates = Resolved(t.gate_id)

\* a tile whose seat list holds two ids, one of an entity that was deleted:
\* the other is returned
C11_Witness ==
    /\ ret.op = "get_entities_in_cell"
    /\ Len(ret.seats) = 1
    /\ \E t \in ret.tile :
          /\ Len(fetch_ids(t.seat_id)) = 2
          /\ \E i \in Listed(t.seat_id) : \A n \in nodes : n.id # i

(***************************************************************************)
(* The coordinate transform of a manager as it was constructed             *)
(***************************************************************************)
\* the parameters <<cell_size, origin_x, origin_y>> managers are constructed
\* with: those of the service and of the tests, and cell sizes of 0 and less
GridConfigs ==
    {<<5, 0, 0>>, <<10, 100, 200>>, <<0, 0, 0>>, <<-5, 0, 0>>}

\* points <<xn, yn, den>>, that is (xn / den, yn / den), off the integers:
\* just below a cell boundary, just below the origin
FracPoints == {<<4999, 4999, 1000>>, <<-1, -1, 1000>>}

\* gm = GridManager(cell_size=cs, origin_x=ox, origin_y=oy)
Construct(cs, ox, oy) ==
    /\ LET gm == GridManager_init(cs, ox, oy)
       IN  ret' = [Returned("GridManager") EXCEPT
                     !.args = <<cs, ox, oy>>, !.config = gm,
                     !.error = gm.error]
    /\ UNCHANGED <<nodes, tiles, nops, nmut, running>>

\* gm.get_cell_coords(xn / den, yn / den) of the manager just constructed
GetCellCoords(xn, yn, den) ==
    /\ ret.op = "GridManager" /\ ~ret.error
    /\ LET r == cell_coords_of(ret.config, xn, yn, den)
       IN  ret' = [Returned("get_cell_coords") EXCEPT
                     !.args = <<xn, yn, den>>, !.config = ret.config,
                     !.cell = r.cell, !.error = r.error]
    /\ UNCHANGED <<nodes, tiles, nops, nmut, running>>

\* gm.get_cell_coords at the midpoint of gm.get_cell_bounds(grid_x, grid_y),
\* of the manager just constructed
CellOfMidpoint(grid_x, grid_y) ==
    /\ ret.op = "GridManager" /\ ~ret.error
    /\ LET b == cell_bounds_of(ret.config, grid_x, grid_y)
           r == cell_coords_of(ret.config, b[1] + b[2], b[3] + b[4], 2)
       IN  ret' = [Returned("cell_of_midpoint") EXCEPT
                     !.args = <<grid_x, grid_y>>, !.config = ret.config,
                     !.bounds = b, !.cell = r.cell, !.error = r.error]
    /\ UNCHANGED <<nodes, tiles, nops, nmut, running>>

NextGrid ==
    \/ \E c \in GridConfigs : Construct(c[1], c[2], c[3])
    \/ \E x, y \in -MaxCoord..MaxCoord : GetCellCoords(x, y, 1)
    \/ \E p \in FracPoints : GetCellCoords(p[1], p[2], p[3])
    \/ \E gx, gy \in -MaxCell..MaxCell : CellOfMidpoint(gx, gy)

SpecGrid == Init /\ [][NextGrid]_vars

\* the point xn / den lies in the cell g of one axis of a grid with the
\* origin o and the cell size cs: o + g*cs <= xn / den < o + (g+1)*cs
InCell(xn, den, g, o, cs) ==
    (o + g * cs) * den <= xn /\ xn < (o + (g + 1) * cs) * den

C13_BoundsInverse ==
    (ret.op = "cell_of_midpoint" /\ ret.config.cell_size > 0) =>
        ~ret.error /\ ret.cell = ret.args

\* the cell (-2, 3) of the grid of the service: the midpoint (-7.5, 17.5)
C13_Witness ==
    /\ ret.op = "cell_of_midpoint"
    /\ ret.config = grid_manager
    /\ ret.args = <<-2, 3>>
    /\ ret.bounds = <<-10, -5, 15, 20>>
    /\ ret.cell = <<-2, 3>>

(***************************************************************************)
(* The tiles of the incremental path: geometry and lifecycle               *)
(***************************************************************************)
\* the position (x, y) lies in the bounds of tile t, min inclusive and max
\* exclusive
InBounds(t, x, y) ==
    t.min_x <= x /\ x < t.max_x /\ t.min_y <= y /\ y < t.max_y

\* C14: every tile made by get_or_create_tile, assign_entity_to_cell or
\* rebuild_grid has min_x = origin_x + grid_x*cell_size, max_x = min_x +
\* cell_size, min_y = origin_y + grid_y*cell_size, max_y = min_y +
\* cell_size, walkable true and an id given by (grid_x, grid_y, level), and
\* the position it was made or assigned at lies in these bounds
C14_TileGeometry ==
    /\ \A t \in tiles :
          /\ t.min_x = origin_x + t.grid_x * cell_size
          /\ t.max_x = t.min_x + cell_size
          /\ t.min_y = origin_y + t.grid_y * cell_size
          /\ t.max_y = t.min_y + cell_size
          /\ t.walkable = TRUE
    /\ \A t, u \in tiles :
          (t.id = u.id) <=>
              (t.grid_x = u.grid_x /\ t.grid_y = u.grid_y /\ t.level = u.level)
    /\ ret.op \in {"get_or_create_tile", "assign_entity_to_cell"} =>
          /\ ret.tile # {}
          /\ \A t \in ret.tile :
                InBounds(t, ret.args[1], ret.args[2]) /\ t.level = ret.args[3]
    /\ ret.op = "rebuild_grid" =>
          \A n \in nodes :
              \E t \in tiles :
                  /\ n.id \in Listed(t.node_id)
                  /\ InBounds(t, n.x, n.y)
                  /\ t.level = n.level

\* an entity assigned at (-3, -8): the tile of the cell (-1, -2)
C14_Witness ==
    /\ ret.op = "assign_entity_to_cell"
    /\ ret.args = <<-3, -8, 0>>
    /\ \E t \in ret.tile :
          /\ t.grid_x = -1 /\ t.grid_y = -2
          /\ <<t.min_x, t.max_x, t.min_y, t.max_y>> = <<-5, 0, -10, -5>>
          /\ ListedAny(t) # {}

\* every tile of before the step is a tile of after it, for the same cell
\* and level
TilesKept ==
    \A t \in tiles : \E u \in tiles' :
        /\ u.id = t.id
        /\ u.grid_x = t.grid_x /\ u.grid_y = t.grid_y /\ u.level = t.level

\* C17: a tile that exists goes on existing through every
\* get_or_create_tile, assign_entity_to_cell and get_entities_in_cell; the
\* one call of the index after which a tile is absent is rebuild_grid
C17_TileLifecycle ==
    [][/\ ret'.op \in {"get_or_create_tile", "assign_entity_to_cell",
                       "get_entities_in_cell"} => TilesKept
       /\ ~TilesKept => ret'.op = "rebuild_grid"]_vars

\* two tiles, one of them with an entity, there after two writes of the
\* index and a lookup
C17_Witness ==
    /\ ret.op = "get_entities_in_cell"
    /\ ret.tile # {}
    /\ nops >= 2
    /\ Cardinality(tiles) >= 2
    /\ \E t \in tiles : ListedAny(t) # {}

(***************************************************************************)
(* The callers of the index                                                *)
(***************************************************************************)
\* C18: an update of a node in the store calls the assignment of the index
\* for the node: once PUT /nodes/{id} has returned, the tile of the cell
\* and level the node is on now lists its id, with no rebuild
C18_UpdateIndexes ==
    ret.op = "update_node" =>
        \A n \in nodes :
            (n.id = ret.entity =>
                \E t \in tiles :
                    /\ <<t.grid_x, t.grid_y>> = CellOf(n.x, n.y)
                    /\ t.level = n.level
                    /\ n.id \in ListedAny(t))

\* C19: a manager given a cell size of 0 or less is refused when it is
\* constructed, so no call is made on a grid with such a cell size
C19_BadConfigRejected ==
    /\ (ret.op = "GridManager" /\ ret.args[1] <= 0) => ret.error
    /\ ret.op \in {"get_cell_coords", "cell_of_midpoint"} =>
          ret.config.cell_size > 0

(***************************************************************************)
(* Failures of the store under rebuild_grid and assign_entity_to_cell      *)
(***************************************************************************)
\* rebuild_grid raises, or the process stops, at the statement at
RebuildGridFails(scan, at) ==
    /\ \E left \in rebuild_grid_stopped(tiles, scan, at) : tiles' = left
    /\ ret' = [Returned("rebuild_grid") EXCEPT
                  !.error = TRUE, !.at = at, !.before = tiles,
                  !.count = -1]
    /\ UNCHANGED <<nodes, nops, nmut, running>>

\* assign_entity_to_cell raises at the statement at; the commit and the
\* refresh of get_or_create_tile run only when the tile is not there yet
AssignEntityToCellFails(x, y, level, entity_type, entity_obj, at) ==
    /\ at \in {"create", "refresh"} =>
          LET c == get_cell_coords(x, y)
          IN  QueryTile(tiles, tile_id_of(c[1], c[2], level)) = {}
    /\ tiles' = assign_entity_to_cell_stopped(tiles, x, y, level, at)
    /\ ret' = [Returned("assign_entity_to_cell") EXCEPT
                  !.args = <<x, y, level>>,
                  !.category = entity_type, !.entity = entity_obj,
                  !.error = TRUE, !.at = at, !.before = tiles]
    /\ nops' = nops + 1
    /\ UNCHANGED <<nodes, nmut, running>>

\* the index is written and rebuilt, and either call can fail
NextFault ==
    \/ /\ StoreRoom
       /\ \E p \in Places, t \in PlainTypes : AddNode(p[1], p[2], p[3], t)
    \/ /\ nops < MaxOps
       /\ \E n \in nodes, c \in StaleCategories :
             AssignEntityToCell(n.x, n.y, n.level, c, n.id)
    \/ \E scan \in ScanOrders(nodes) : RebuildGrid(scan)
    \/ \E scan \in ScanOrders(nodes), at \in RebuildSteps :
          RebuildGridFails(scan, at)
    \/ /\ nops < MaxOps
       /\ \E n \in nodes, c \in StaleCategories, at \in AssignSteps :
             AssignEntityToCellFails(n.x, n.y, n.level, c, n.id, at)

SpecFault == Init /\ [][NextFault]_vars

\* C15: when rebuild_grid fails or stops before its final write is
\* complete, the tiles table is the table of before the call or is empty;
\* it never holds some of the tiles that were being built and not others
C15_RebuildAllOrNothing ==
    (ret.op = "rebuild_grid" /\ ret.error) =>
        tiles = ret.before \/ tiles = {}

\* a rebuild of two tiles over an index that held a tile, stopped in its
\* final write: the table is empty
C15_Witness ==
    /\ ret.op = "rebuild_grid" /\ ret.error
    /\ ret.at = "bulk"
    /\ ret.before # {}
    /\ Cardinality({<<CellOf(n.x, n.y), n.level>> : n \in nodes}) = 2
    /\ tiles = {}

\* C16: when the store fails under rebuild_grid or assign_entity_to_cell
\* the error reaches the caller and nothing of the call is committed: the
\* tiles table after the call is the table of before it
C16_FailureCommitsNothing ==
    (ret.op \in {"rebuild_grid", "assign_entity_to_cell"} /\ ret.error) =>
        tiles = ret.before

(***************************************************************************)
(* rebuild_grid and assign_entity_to_cell of two requests, statement by    *)
(* statement, with no lock between them                                    *)
(***************************************************************************)
\* the positions and the category tags of SpecRace
RacePlaces == {<<12, 7, 0>>, <<-3, -8, 0>>}
RaceCategories == {"seat", "poi"}

\* a commit that sends no UPDATE
CommitTile_none(db, loaded, new) == [db |-> db, error |-> FALSE]

\* db.commit() of a session that loaded the tile loaded and left it as new:
\* no column written, no UPDATE; else UPDATE tiles SET the written columns
\* WHERE id = loaded.id, which raises when the row is gone: [db, error]
CommitTile(db, loaded, new) ==
    IF new = loaded THEN [db |-> db, error |-> FALSE]
    ELSE IF \A t \in db : t.id # loaded.id
    THEN [db |-> db, error |-> TRUE]
    ELSE [db |-> {IF t.id # loaded.id THEN t
                  ELSE [t EXCEPT
                          !.node_id = IF new.node_id # loaded.node_id
                                      THEN new.node_id ELSE @,
                          !.poi_id = IF new.poi_id # loaded.poi_id
                                     THEN new.poi_id ELSE @,
                          !.seat_id = IF new.seat_id # loaded.seat_id
                                      THEN new.seat_id ELSE @,
                          !.gate_id = IF new.gate_id # loaded.gate_id
                                      THEN new.gate_id ELSE @] : t \in db},
          error |-> FALSE]

\* the history of the assignment once a rebuild has moved
RebuildMoved(assign) ==
    [assign EXCEPT !.alone = FALSE, !.raced = @ \/ assign.pc = "loaded"]

\* a rebuild_grid whose delete is not committed before the final commit
RebuildDelete_uncommitted ==
    /\ running.rebuild.pc = "idle"
    /\ running' = [running EXCEPT !.rebuild.pc = "deleted",
                                  !.assign = RebuildMoved(@)]
    /\ UNCHANGED <<nodes, tiles, ret, nops, nmut>>

\* rebuild_grid: db.query(Tile).delete(); db.commit()
RebuildDelete ==
    /\ running.rebuild.pc = "idle"
    /\ tiles' = DeleteTiles(tiles)
    /\ running' = [running EXCEPT !.rebuild.pc = "deleted",
                                  !.assign = RebuildMoved(@)]
    /\ UNCHANGED <<nodes, ret, nops, nmut>>

\* rebuild_grid: nodes = db.query(Node).all() and the loop over them
RebuildScan(scan) ==
    /\ running.rebuild.pc = "deleted"
    /\ LET tiles_cache == BuildCache(scan, <<>>)
       IN  running' = [running EXCEPT
                         !.rebuild.pc = "built",
                         !.rebuild.built =
                             {tiles_cache[k] : k \in DOMAIN tiles_cache},
                         !.assign = RebuildMoved(@)]
    /\ UNCHANGED <<nodes, tiles, ret, nops, nmut>>

\* a bulk write that, on a collision, keeps the tiles that do not collide
RebuildWrite_partial ==
    /\ running.rebuild.pc = "built"
    /\ LET built == running.rebuild.built
           ok == InsertOk(tiles, built)
           free == {b \in built : \A t \in tiles : t.id # b.id}
       IN  /\ tiles' = tiles \cup free
           /\ ret' = [Returned("rebuild_grid") EXCEPT
                         !.count = IF ok THEN Cardinality(built) ELSE -1,
                         !.error = ~ok]
    /\ running' = [running EXCEPT
                      !.rebuild = [pc |-> "idle", built |-> {},
                                   finished |-> TRUE],
                      !.assign = RebuildMoved(@)]
    /\ UNCHANGED <<nodes, nops, nmut>>

\* rebuild_grid: db.add(tile) for every tile; db.commit(); return
RebuildWrite ==
    /\ running.rebuild.pc = "built"
    /\ LET built == running.rebuild.built
           ok == InsertOk(tiles, built)
       IN  /\ tiles' = IF ok THEN tiles \cup built ELSE tiles
           /\ ret' = [Returned("rebuild_grid") EXCEPT
                         !.count = IF ok THEN Cardinality(built) ELSE -1,
                         !.error = ~ok]
    /\ running' = [running EXCEPT
                      !.rebuild = [pc |-> "idle", built |-> {},
                                   finished |-> TRUE],
                      !.assign = RebuildMoved(@)]
    /\ UNCHANGED <<nodes, nops, nmut>>

\* assign_entity_to_cell: tile = self.get_or_create_tile(db, x, y, level)
AssignLoad(x, y, level, entity_type, entity_obj) ==
    /\ running.assign.pc \in {"idle", "done"}
    /\ LET r == get_or_create_tile(tiles, x, y, level)
       IN  /\ tiles' = r.db
           /\ running' = [running EXCEPT !.assign =
                  [pc |-> "loaded", tile |-> r.tile, args |-> <<x, y, level>>,
                   category |-> entity_type, entity |-> entity_obj,
                   error |-> FALSE,
                   alone |-> (running.rebuild.pc = "idle"
                              /\ running.rebuild.finished),
                   raced |-> FALSE]]
    /\ nops' = nops + 1
    /\ UNCHANGED <<nodes, ret, nmut>>

\* assign_entity_to_cell: the write of the list; db.commit(); return tile
AssignCommit ==
    /\ running.assign.pc = "loaded"
    /\ LET a == running.assign
           loaded == CHOOSE t \in a.tile : TRUE
           new == AssignField(loaded, a.category, a.entity)
           r == CommitTile(tiles, loaded, new)
       IN  /\ tiles' = r.db
           /\ running' = [running EXCEPT !.assign.pc = "done",
                                         !.assign.error = r.error]
           /\ ret' = [Returned("assign_entity_to_cell") EXCEPT
                         !.args = a.args, !.category = a.category,
                         !.entity = a.entity,
                         !.tile = IF r.error THEN {} ELSE {new},
                         !.error = r.error]
    /\ UNCHANGED <<nodes, nops, nmut>>

\* two requests: one rebuilds the index, the other assigns entities
NextRace ==
    \/ /\ StoreRoom
       /\ \E p \in RacePlaces, t \in PlainTypes : AddNode(p[1], p[2], p[3], t)
    \/ /\ nops < MaxOps
       /\ \E n \in nodes, c \in RaceCategories :
             AssignLoad(n.x, n.y, n.level, c, n.id)
    \/ AssignCommit
    \/ RebuildDelete
    \/ \E scan \in ScanOrders(nodes) : RebuildScan(scan)
    \/ RebuildWrite

SpecRace == Init /\ [][NextRace]_vars

\* the tiles that now have the id of the tile the assignment loaded
TileOfAssign == {t \in tiles : \E l \in running.assign.tile : l.id = t.id}

\* C20: with no lock, rebuild_grid and an assign_entity_to_cell that runs
\* beside it can end with the assignment returned without error and its id
\* not in the list of the category in its tile (C20_Witness is such an
\* end); an assignment that begins after a rebuild has ended, no rebuild
\* moving since, returns without error with its id in that list
C20_SerialAssignKept ==
    (/\ running.assign.pc = "done"
     /\ running.assign.alone
     /\ running.assign.entity # None) =>
        /\ ~running.assign.error
        /\ TileOfAssign # {}
        /\ \A t \in TileOfAssign :
              running.assign.entity \in
                  Listed(t[ColumnOf(running.assign.category)])

\* a rebuild moved between the two statements of an assignment; both have
\* ended, the assignment without error, and no tile lists its id in the
\* list of its category
C20_Witness ==
    /\ running.assign.pc = "done"
    /\ ~running.assign.error
    /\ running.assign.raced
    /\ running.rebuild.pc = "idle"
    /\ running.rebuild.finished
    /\ \A t \in TileOfAssign :
          running.assign.entity \notin
              Listed(t[ColumnOf(running.assign.category)])

(***************************************************************************)
(* get_or_create_tile and assign_entity_to_cell of two requests, statement *)
(* by statement, each request in a session of its own                      *)
(***************************************************************************)
\* the category tags of SpecSessions
SessionCategories == {"seat"}

\* the request s has begun a call and not ended it
Active(s) == running.sessions[s].pc \in {"queried", "loaded"}

\* the other request
Other(s) == CHOOSE o \in Sessions : o # s

\* get_or_create_tile: tile = db.query(Tile).filter(...).first(), of the
\* call op of request s
SessionQuery(s, op, x, y, level, entity_type, entity_obj) ==
    /\ running.sessions[s].pc \in {"idle", "done"}
    /\ LET c == get_cell_coords(x, y)
           o == Other(s)
       IN  running' = [running EXCEPT
              !.sessions[s] =
                  [pc |-> "queried", op |-> op,
                   tile |-> QueryTile(tiles, tile_id_of(c[1], c[2], level)),
                   args |-> <<x, y, level>>, category |-> entity_type,
                   entity |-> entity_obj, error |-> FALSE,
                   overlap |-> Active(o), lost |-> FALSE],
              !.sessions[o].overlap = @ \/ Active(o)]
    /\ nops' = nops + 1
    /\ UNCHANGED <<nodes, tiles, ret, nmut>>

\* get_or_create_tile: if tile: return tile; else Tile(...); db.add(tile);
\* db.commit(); db.refresh(tile); return tile
SessionCreate(s) ==
    /\ running.sessions[s].pc = "queried"
    /\ LET a == running.sessions[s]
           c == get_cell_coords(a.args[1], a.args[2])
           tile == NewTile(c[1], c[2], a.args[3], None)
           ok == a.tile # {} \/ InsertOk(tiles, {tile})
           after == IF a.op = "get_or_create_tile" THEN "done" ELSE "loaded"
       IN  /\ tiles' = IF a.tile = {} /\ ok THEN tiles \cup {tile} ELSE tiles
           /\ running' = [running EXCEPT
                  !.sessions[s].pc = IF ok THEN after ELSE "done",
                  !.sessions[s].tile = IF a.tile # {} THEN a.tile
                                       ELSE IF ok THEN {tile} ELSE {},
                  !.sessions[s].error = ~ok,
                  !.sessions[s].lost =
                      a.tile = {} /\ \E t \in tiles : t.id = tile.id]
    /\ UNCHANGED <<nodes, ret, nops, nmut>>

\* assign_entity_to_cell: the write of the list; db.commit(); return tile
SessionCommit(s) ==
    /\ running.sessions[s].pc = "loaded"
    /\ LET a == running.sessions[s]
           loaded == CHOOSE t \in a.tile : TRUE
           new == AssignField(loaded, a.category, a.entity)
           r == CommitTile(tiles, loaded, new)
       IN  /\ tiles' = r.db
           /\ running' = [running EXCEPT
                  !.sessions[s].pc = "done",
                  !.sessions[s].tile = IF r.error THEN {} ELSE {new},
                  !.sessions[s].error = r.error]
    /\ UNCHANGED <<nodes, ret, nops, nmut>>

\* two requests, each looking tiles up and assigning entities
NextSessions ==
    \/ /\ StoreRoom
       /\ \E p \in RacePlaces, t \in PlainTypes : AddNode(p[1], p[2], p[3], t)
    \/ /\ nops < MaxOps
       /\ \E s \in Sessions, p \in RacePlaces :
             SessionQuery(s, "get_or_create_tile", p[1], p[2], p[3], "", None)
    \/ /\ nops < MaxOps
       /\ \E s \in Sessions, n \in nodes, c \in SessionCategories :
             SessionQuery(s, "assign_entity_to_cell", n.x, n.y, n.level, c,
                          n.id)
    \/ \E s \in Sessions : SessionCreate(s)
    \/ \E s \in Sessions : SessionCommit(s)

SpecSessions == Init /\ [][NextSessions]_vars

\* both requests have ended an assign_entity_to_cell without error, of two
\* ids, with one category tag, in one tile
BothAssigned ==
    LET a == running.sessions[1]
        b == running.sessions[2]
    IN  /\ a.pc = "done" /\ b.pc = "done"
        /\ a.op = "assign_entity_to_cell" /\ b.op = "assign_entity_to_cell"
        /\ ~a.error /\ ~b.error
        /\ a.entity # b.entity
        /\ a.category = b.category
        /\ get_cell_coords(a.args[1], a.args[2])
               = get_cell_coords(b.args[1], b.args[2])
        /\ a.args[3] = b.args[3]

\* the ids the tile of request 1's call lists under its category tag
ListOfBoth ==
    LET a == running.sessions[1]
        c == get_cell_coords(a.args[1], a.args[2])
    IN  UNION {Listed(t[ColumnOf(a.category)]) :
                 t \in QueryTile(tiles, tile_id_of(c[1], c[2], a.args[3]))}

\* C21: two assign_entity_to_cell calls of two sessions, with two ids, one
\* tile and one category tag, that run one after the other in either order
\* leave both ids in the list; run side by side they can leave the list
\* with one of the two ids only (C21_Witness is such an end)
C21_SerialKeepsBoth ==
    (/\ BothAssigned
     /\ ~running.sessions[1].overlap
     /\ ~running.sessions[2].overlap) =>
        {running.sessions[1].entity, running.sessions[2].entity}
            \subseteq ListOfBoth

\* both calls ran side by side and ended without error, and the list holds
\* one of the two ids: the other update is lost
C21_Witness ==
    /\ BothAssigned
    /\ running.sessions[1].overlap
    /\ running.sessions[2].overlap
    /\ Cardinality(ListOfBoth) = 1
    /\ ListOfBoth \subseteq
          {running.sessions[1].entity, running.sessions[2].entity}

(***************************************************************************)
(* GET /maps/grid/stats                                                    *)
(***************************************************************************)
\* the ids the tiles of db list in the column col, tile by tile
RECURSIVE CountIds(_, _)
CountIds(db, col) ==
    IF db = {} THEN 0
    ELSE LET tile == CHOOSE t \in db : TRUE
         IN  Len(fetch_ids(tile[col])) + CountIds(db \ {tile}, col)

\* get_grid_stats: the body of the response
get_grid_stats(db) ==
    LET total_nodes == CountIds(db, "node_id")
        total_pois == CountIds(db, "poi_id")
        total_seats == CountIds(db, "seat_id")
        total_gates == CountIds(db, "gate_id")
    IN  [total_tiles |-> Cardinality(db),
         entities_indexed |->
             [nodes |-> total_nodes, pois |-> total_pois,
              seats |-> total_seats, gates |-> total_gates,
              total |-> total_nodes + total_pois + total_seats + total_gates],
         configuration |->
             <<grid_manager.cell_size, grid_manager.origin_x,
               grid_manager.origin_y>>]

\* GET /maps/grid/stats: count is the node count of the response, args its
\* other counts (tiles, pois, seats, gates, total)
GetGridStats ==
    /\ LET r == get_grid_stats(tiles)
           e == r.entities_indexed
       IN  ret' = [Returned("get_grid_stats") EXCEPT
                     !.count = e.nodes,
                     !.args = <<r.total_tiles, e.pois, e.seats, e.gates,
                                e.total>>,
                     !.config = r.configuration]
    /\ UNCHANGED <<nodes, tiles, nops, nmut, running>>

\* the store is loaded, the index is written by assignments and rebuilds,
\* and the statistics are asked for
NextStats ==
    \/ /\ StoreRoom
       /\ \E p \in Places, t \in InputTypes : AddNode(p[1], p[2], p[3], t)
    \/ /\ nops < MaxPrior
       /\ \E n \in nodes, c \in StaleCategories :
             AssignEntityToCell(n.x, n.y, n.level, c, n.id)
    \/ \E scan \in ScanOrders(nodes) : RebuildGrid(scan)
    \/ GetGridStats

SpecStats == Init /\ [][NextStats]_vars

\* C22: the grid statistics report a node count equal to the number of
\* nodes in the store, also when nodes were added and the index has not
\* been written since
C22_StatsCountStore ==
    ret.op = "get_grid_stats" => ret.count = Cardinality(nodes)

(***************************************************************************)
(* The incremental path: what a call leaves alone                          *)
(***************************************************************************)
\* the step is a call of assign_entity_to_cell
AssignStep ==
    nops' # nops /\ ret'.op = "assign_entity_to_cell" /\ ~ret'.error

\* the tile of the cell and level of position args, as the table db has it
\* or, absent, as get_or_create_tile makes it
OwnTile(db, args) ==
    LET c == get_cell_coords(args[1], args[2])
        found == QueryTile(db, tile_id_of(c[1], c[2], args[3]))
    IN  IF found # {} THEN CHOOSE t \in found : TRUE
        ELSE NewTile(c[1], c[2], args[3], None)

\* C23: assign_entity_to_cell with a category tag c of node, poi, seat,
\* gate and an entity changes the list c of the tile of the position and
\* nothing else: the other three lists and the other fields of that tile
\* and every other tile stay as they were. On an empty index, a gate
\* assigned at (12, 7, 0) leaves the one tile of cell (2, 1) with bounds
\* (10, 15, 5, 10), the id alone in gate_id and not in node_id
C23_AssignFrame ==
    [][(/\ AssignStep
        /\ ret'.category \in {"node", "poi", "seat", "gate"}
        /\ ret'.entity # None) =>
          LET old == OwnTile(tiles, ret'.args)
              new == OwnTile(tiles', ret'.args)
              c == ColumnOf(ret'.category)
          IN  /\ tiles' \ {new} = tiles \ {old}
              /\ new \in tiles'
              /\ new = [old EXCEPT ![c] = new[c]]
              /\ Listed(new[c]) = Listed(old[c]) \cup {ret'.entity}
              /\ (/\ tiles = {}
                  /\ ret'.args = <<12, 7, 0>>
                  /\ ret'.category = "gate") =>
                    /\ new.grid_x = 2 /\ new.grid_y = 1
                    /\ <<new.min_x, new.max_x, new.min_y, new.max_y>>
                           = <<10, 15, 5, 10>>
                    /\ fetch_ids(new.gate_id) = <<ret'.entity>>
                    /\ ret'.entity \notin Listed(new.node_id)
                    /\ tiles' = {new}]_vars

\* a gate was assigned at (12, 7, 0) on an empty index: the one tile lists
\* it in gate_id and lists nothing in node_id
C23_Witness ==
    /\ ret.op = "assign_entity_to_cell"
    /\ ret.args = <<12, 7, 0>>
    /\ ret.category = "gate"
    /\ ret.entity # None
    /\ ~ret.error
    /\ tiles = ret.tile
    /\ \E t \in tiles :
          /\ t.id = tile_id_of(2, 1, 0)
          /\ fetch_ids(t.gate_id) = <<ret.entity>>
          /\ ListedAny(t) = Listed(t.gate_id)

\* the step is a call of get_entities_in_cell
LookupStep == ret'.op = "get_entities_in_cell" /\ ret' # ret

\* C25: get_entities_in_cell reads and writes nothing: the tiles and their
\* lists are after the call what they were before it, and the tile of a
\* cell that was absent is still absent
C25_LookupReads ==
    [][LookupStep =>
          /\ tiles' = tiles
          /\ nodes' = nodes
          /\ ret'.tile = TilesOfCell(ret'.args[1], ret'.args[2],
                                     ret'.args[3])
          /\ (ret'.tile = {} =>
                \A t \in tiles' :
                    <<t.grid_x, t.grid_y, t.level>> # ret'.args)]_vars

\* a cell with no tile was looked up while other cells have tiles, and it
\* still has no tile
C25_Witness ==
    /\ ret.op = "get_entities_in_cell"
    /\ ret.tile = {}
    /\ tiles # {}
    /\ TilesOfCell(ret.args[1], ret.args[2], ret.args[3]) = {}

\* C27: assign_entity_to_cell with a category tag that is not recognised,
\* or without an entity, reports no error and changes no list, and the
\* tile of the position is in the table afterwards, created empty when it
\* was absent; a get_entities_in_cell of that cell right after it returns
\* that tile, not None, and, the tile listing nothing, four empty lists
C27_UnrecognisedAssign ==
    [][/\ (nops' # nops /\ ret'.op = "assign_entity_to_cell"
               /\ Unrecognised(ret')) =>
             /\ ~ret'.error
             /\ tiles' = tiles \cup {OwnTile(tiles, ret'.args)}
             /\ ret'.tile = {OwnTile(tiles, ret'.args)}
             /\ (QueryTile(tiles, OwnTile(tiles, ret'.args).id) = {} =>
                   ListedAny(OwnTile(tiles', ret'.args)) = {})
       /\ (/\ ret.op = "assign_entity_to_cell"
           /\ Unrecognised(ret)
           /\ LookupStep
           /\ ret'.args = CellArgs(ret.args)) =>
             /\ ret'.tile = ret.tile
             /\ ret'.tile # {}
             /\ (\A t \in ret.tile : ListedAny(t) = {}) =>
                   /\ ret'.nodes = <<>> /\ ret'.pois = <<>>
                   /\ ret'.seats = <<>> /\ ret'.gates = <<>>]_vars

\* an assignment with a tag that is not recognised created the one tile of
\* the index, and the lookup of its cell returned it with four empty lists
C27_Witness ==
    /\ ret.op = "get_entities_in_cell"
    /\ ret.prev = "unrecognised"
    /\ ret.tile # {}
    /\ ret.tile = tiles
    /\ nops = 1
    /\ \A t \in tiles : ListedAny(t) = {}
    /\ ret.nodes = <<>> /\ ret.pois = <<>>
    /\ ret.seats = <<>> /\ ret.gates = <<>>

(***************************************************************************)
(* The index between rebuilds: the store changes under it                  *)
(***************************************************************************)
\* the positions of SpecDrift: two cells of level 0, one of them on level 1
\* as well
DriftPlaces == {<<12, 7, 0>>, <<-3, -8, 0>>, <<12, 7, 1>>}

\* the NodeUpdate bodies that move a node to one of these positions
DriftMoves ==
    {u \in NodeMoves :
        \E p \in DriftPlaces : u.x = {p[1]} /\ u.y = {p[2]} /\ u.level = {p[3]}}

\* entities are loaded, moved and deleted while the index is written one
\* entity at a time, read, and rebuilt
NextDrift ==
    \/ /\ StoreOpen /\ Cardinality(nodes) < MaxPrior
       /\ \E p \in DriftPlaces, t \in PlainTypes :
             AddNode(p[1], p[2], p[3], t)
    \/ /\ StoreOpen
       /\ \E n \in nodes, d \in DriftMoves : UpdateNode(n, d)
    \/ /\ StoreOpen
       /\ \E n \in nodes : DeleteNode(n)
    \/ /\ nops < MaxOps
       /\ \E p \in DriftPlaces : GetOrCreateTile(p[1], p[2], p[3])
    \/ /\ nops < MaxOps
       /\ \E n \in nodes, c \in SessionCategories :
             AssignEntityToCell(n.x, n.y, n.level, c, n.id)
    \/ \E p \in DriftPlaces :
          GetEntitiesInCell(CellArgs(p)[1], CellArgs(p)[2], CellArgs(p)[3])
    \/ \E scan \in ScanOrders(nodes) : RebuildGrid(scan)

SpecDrift == Init /\ [][NextDrift]_vars

\* the tiles of db that list the id i in the column col
TilesListing_in(db, i, col) == {t.id : t \in {u \in db : i \in Listed(u[col])}}

\* the ids of the entities in the store
StoreIds(store) == {n.id : n \in store}

\* C24: a step that is not a rebuild keeps every tile and every id of
\* every list: get_or_create_tile, assign_entity_to_cell,
\* get_entities_in_cell and the deletion, move or load of an entity only
\* add; so the id of a deleted entity stays listed. After rebuild_grid no
\* tile lists an id that is not in the store
C24_ListsGrow ==
    [][/\ ret'.op # "rebuild_grid" =>
             \A t \in tiles : \E u \in tiles' :
                 /\ u.id = t.id
                 /\ \A col \in Columns :
                       IsPrefix(fetch_ids(t[col]), fetch_ids(u[col]))
       /\ (ret'.op = "rebuild_grid" /\ ~ret'.error) =>
             \A u \in tiles' : ListedAny(u) \subseteq StoreIds(nodes)]_vars

\* an entity was deleted and a lookup made since, and the tile the lookup
\* returned still lists an id that is not in the store
C24_Witness ==
    /\ ret.op = "get_entities_in_cell"
    /\ \E t \in ret.tile : ~(ListedAny(t) \subseteq StoreIds(nodes))
    /\ ret.tile \subseteq tiles

\* C26: assign_entity_to_cell lists the id in the tile of the position it
\* is given and takes it out of no tile: an entity assigned in one cell,
\* moved, and assigned again with the same category tag in another cell or
\* on another level is listed in both tiles (C26_Witness is such a state),
\* and no step but a rebuild lowers the number of tiles that list an id;
\* after rebuild_grid every id is listed in one tile at most
C26_AssignKeepsOld ==
    [][/\ (AssignStep /\ ~Unrecognised(ret')) =>
             TilesListing_in(tiles', ret'.entity, ColumnOf(ret'.category))
                = TilesListing_in(tiles, ret'.entity,
                                  ColumnOf(ret'.category))
                  \cup {OwnTile(tiles, ret'.args).id}
       /\ ret'.op # "rebuild_grid" =>
             \A col \in Columns : \A i \in StoreIds(nodes) :
                 TilesListing_in(tiles, i, col)
                     \subseteq TilesListing_in(tiles', i, col)
       /\ (ret'.op = "rebuild_grid" /\ ~ret'.error) =>
             \A col \in Columns : \A i \in StoreIds(nodes) :
                 Cardinality(TilesListing_in(tiles', i, col)) <= 1]_vars

\* an entity of the store was assigned, moved and assigned again: two tiles
\* list its id under the category tag of the last assignment, and one of
\* them is the tile of the cell and level the entity is in
C26_Witness ==
    /\ ret.op = "assign_entity_to_cell"
    /\ ~ret.error
    /\ ~Unrecognised(ret)
    /\ \E n \in nodes :
          /\ n.id = ret.entity
          /\ ret.args = <<n.x, n.y, n.level>>
    /\ Cardinality(TilesListing_in(tiles, ret.entity,
                                    ColumnOf(ret.category))) = 2
    /\ \A t \in ret.tile :
          t.id \in TilesListing_in(tiles, ret.entity, ColumnOf(ret.category))

(***************************************************************************)
(* rebuild_grid beside other requests: what its two commits let through    *)
(***************************************************************************)
\* the step is the bulk write of a rebuild_grid
WriteStep == running.rebuild.pc = "built" /\ running'.rebuild.pc = "idle"

\* the tiles the rebuild built whose id a tile of the table has
Collide(db, built) == {b \in built : \E t \in db : t.id = b.id}

TileIdOf(s) == tile_id_of(CellArgs(running.sessions[s].args)[1],
                          CellArgs(running.sessions[s].args)[2],
                          CellArgs(running.sessions[s].args)[3])

\* C29: get_or_create_tile is a lookup followed by an insert, so two
\* requests can both find the tile of a cell and level absent and both
\* insert it. The primary key keeps one row per id; the request whose
\* insert comes second ends with an error and gets no tile, while the row
\* of the other is in the table; a request that found the tile, or whose
\* insert came first, gets a tile without error
C29_OneInsertWins ==
    /\ \A t, u \in tiles : t.id = u.id => t = u
    /\ \A s \in Sessions :
          LET a == running.sessions[s]
          IN  (a.pc \in {"loaded", "done"}
                 /\ (a.op = "get_or_create_tile" \/ a.pc = "loaded"
                        \/ a.lost)) =>
                IF a.lost
                THEN /\ a.pc = "done" /\ a.error /\ a.tile = {}
                     /\ \E t \in tiles : t.id = TileIdOf(s)
                ELSE /\ ~a.error
                     /\ \E t \in a.tile : t.id = TileIdOf(s)

\* both requests called get_or_create_tile for one cell and level and both
\* found the tile absent; one inserted it, the other ended with an error,
\* and the table holds the one row
C29_Witness ==
    LET a == running.sessions[1]
        b == running.sessions[2]
    IN  /\ a.pc = "done" /\ b.pc = "done"
        /\ a.op = "get_or_create_tile" /\ b.op = "get_or_create_tile"
        /\ TileIdOf(1) = TileIdOf(2)
        /\ a.lost # b.lost
        /\ a.error # b.error
        /\ a.error = a.lost
        /\ Cardinality({t \in tiles : t.id = TileIdOf(1)}) = 1

\* get_all_tiles: the body of the response; level is {} for no filter
get_all_tiles(db, level) ==
    LET found == {t \in db : level = {} \/ t.level \in level}
        Entry(tile) ==
            LET node_count == Len(fetch_ids(tile.node_id))
                poi_count == Len(fetch_ids(tile.poi_id))
                seat_count == Len(fetch_ids(tile.seat_id))
                gate_count == Len(fetch_ids(tile.gate_id))
            IN  [id |-> tile.id, grid_x |-> tile.grid_x,
                 grid_y |-> tile.grid_y, level |-> tile.level,
                 bounds |-> <<tile.min_x, tile.max_x, tile.min_y,
                              tile.max_y>>,
                 walkable |-> tile.walkable,
                 entity_counts |->
                     [nodes |-> node_count, pois |-> poi_count,
                      seats |-> seat_count, gates |-> gate_count,
                      total |-> node_count + poi_count + seat_count
                                    + gate_count]]
    IN  [tiles |-> {Entry(t) : t \in found},
         total_tiles |-> Cardinality(found)]

\* GET /maps/grid/tiles: tile holds the entries of the response, count its
\* total_tiles
GetAllTiles(level) ==
    /\ LET r == get_all_tiles(tiles, level)
       IN  ret' = [Returned("get_all_tiles") EXCEPT
                     !.args = <<level>>, !.tile = r.tiles,
                     !.count = r.total_tiles]
    /\ UNCHANGED <<nodes, tiles, nops, nmut, running>>

\* one request rebuilds the index, statement by statement, while others
\* load the store and read the index
NextReaders ==
    \/ /\ StoreRoom
       /\ \E p \in RacePlaces, t \in PlainTypes : AddNode(p[1], p[2], p[3], t)
    \/ RebuildDelete
    \/ \E scan \in ScanOrders(nodes) : RebuildScan(scan)
    \/ RebuildWrite
    \/ \E p \in RacePlaces :
          GetEntitiesInCell(CellArgs(p)[1], CellArgs(p)[2], CellArgs(p)[3])
    \/ \E level \in {{}, {0}} : GetAllTiles(level)

SpecReaders == Init /\ [][NextReaders]_vars

\* a rebuild_grid has committed its delete and not yet its tiles
Rebuilding == running.rebuild.pc \in {"deleted", "built"}

\* C30: rebuild_grid commits twice, so readers see the index between the
\* two commits: a get_entities_in_cell made then returns no tile and four
\* empty lists, and a tile listing made then lists no tile, whatever the
\* store holds and whatever the cell held before the rebuild began; the
\* final commit then writes the tiles the rebuild built
C30_ReadersSeeEmpty ==
    [][/\ (LookupStep /\ Rebuilding) =>
             /\ ret'.tile = {}
             /\ ret'.nodes = <<>> /\ ret'.pois = <<>>
             /\ ret'.seats = <<>> /\ ret'.gates = <<>>
       /\ (ret'.op = "get_all_tiles" /\ ret' # ret /\ Rebuilding) =>
             ret'.count = 0 /\ ret'.tile = {}
       /\ WriteStep =>
             ~ret'.error /\ tiles' = running.rebuild.built]_vars

\* a cell was looked up and returned its tile and nodes; a rebuild then
\* committed its delete, and the same lookup returned no tile, while the
\* store is not empty and the rebuild has built the tile of the cell, with
\* nodes, to write it
C30_Witness ==
    /\ ret.op = "get_entities_in_cell"
    /\ ret.prev = "emptied"
    /\ ret.tile = {}
    /\ nodes # {}
    /\ running.rebuild.pc = "built"
    /\ \E b \in running.rebuild.built :
          /\ <<b.grid_x, b.grid_y, b.level>> = ret.args
          /\ Listed(b.node_id) # {}

====
